---- MODULE Spec2Model ----
(***************************************************************************)
(* Model of HealthcareOCRProcessor (src/azure_ocr_processor.py):           *)
(*   - the text heuristics (_extract_payer_name, _classify_document_type,  *)
(*     _extract_healthcare_rules, _extract_surrounding_text) as operators  *)
(*     over character strings, computed as the code computes them;         *)
(*   - the batch run process_all_pdfs_from_blob as a state machine whose   *)
(*     program counter follows the statements of the method.               *)
(* Timestamps (datetime.utcnow()) are outside the model: the fields        *)
(* extraction_date, processing_date and timestamp are left out of the      *)
(* records, and the batch-summary name is built from one clock reading.    *)
(***************************************************************************)
EXTENDS Integers, Sequences, FiniteSets, TLC

(***************************************************************************)
(* Bounds of the model.                                                    *)
(***************************************************************************)
MaxFrags == 2
MaxBlobs == 3
MaxPages == 1

(* Python's None where a string is expected, and the value of a variable   *)
(* not yet assigned (NoRecord where a record will be assigned).            *)
None == "<None>"
Unset == "<unset>"
NoRecord == <<>>

(* An optional list: NoList is None, Some(l) is the list l. *)
NoList == <<>>
Some(l) == <<l>>

(***************************************************************************)
(* Python string operations.                                               *)
(***************************************************************************)
UpperSet ==
    { "A", "B", "C", "D", "E", "F", "G", "H", "I", "J", "K", "L", "M",
      "N", "O", "P", "Q", "R", "S", "T", "U", "V", "W", "X", "Y", "Z" }
LowerSet ==
    { "a", "b", "c", "d", "e", "f", "g", "h", "i", "j", "k", "l", "m",
      "n", "o", "p", "q", "r", "s", "t", "u", "v", "w", "x", "y", "z" }
Whitespace == {" ", "\t", "\n"}

Char(s, k) == SubSeq(s, k, k)

IsUpper(c) == c \in UpperSet
IsLower(c) == c \in LowerSet

LowerChar(c) ==
    CASE c = "A" -> "a" [] c = "B" -> "b" [] c = "C" -> "c" [] c = "D" -> "d" [] c = "E" -> "e"
      [] c = "F" -> "f" [] c = "G" -> "g" [] c = "H" -> "h" [] c = "I" -> "i" [] c = "J" -> "j"
      [] c = "K" -> "k" [] c = "L" -> "l" [] c = "M" -> "m" [] c = "N" -> "n" [] c = "O" -> "o"
      [] c = "P" -> "p" [] c = "Q" -> "q" [] c = "R" -> "r" [] c = "S" -> "s" [] c = "T" -> "t"
      [] c = "U" -> "u" [] c = "V" -> "v" [] c = "W" -> "w" [] c = "X" -> "x" [] c = "Y" -> "y"
      [] c = "Z" -> "z"
      [] OTHER -> c

UpperChar(c) ==
    CASE c = "a" -> "A" [] c = "b" -> "B" [] c = "c" -> "C" [] c = "d" -> "D" [] c = "e" -> "E"
      [] c = "f" -> "F" [] c = "g" -> "G" [] c = "h" -> "H" [] c = "i" -> "I" [] c = "j" -> "J"
      [] c = "k" -> "K" [] c = "l" -> "L" [] c = "m" -> "M" [] c = "n" -> "N" [] c = "o" -> "O"
      [] c = "p" -> "P" [] c = "q" -> "Q" [] c = "r" -> "R" [] c = "s" -> "S" [] c = "t" -> "T"
      [] c = "u" -> "U" [] c = "v" -> "V" [] c = "w" -> "W" [] c = "x" -> "X" [] c = "y" -> "Y"
      [] c = "z" -> "Z"
      [] OTHER -> c

(* str.lower() *)
RECURSIVE lower(_)
lower(s) == IF s = "" THEN "" ELSE LowerChar(Char(s, 1)) \o lower(SubSeq(s, 2, Len(s)))

(* str.title(): a cased character is upper-cased when it follows an uncased *)
(* one (or starts the string) and lower-cased otherwise.                    *)
RECURSIVE TitleFrom(_, _)
TitleFrom(s, prevCased) ==
    IF s = "" THEN ""
    ELSE LET c == Char(s, 1)
             cased == IsUpper(c) \/ IsLower(c)
         IN  (IF prevCased THEN LowerChar(c) ELSE UpperChar(c))
                 \o TitleFrom(SubSeq(s, 2, Len(s)), cased)
title(s) == TitleFrom(s, FALSE)

(* the "in" operator on strings: pattern in text *)
Contains(pattern, text) ==
    \E i \in 1..(Len(text) - Len(pattern) + 1) :
        SubSeq(text, i, i + Len(pattern) - 1) = pattern

(* str.find(): 0-based index of the first occurrence, -1 when there is none *)
find(text, pattern) ==
    IF Contains(pattern, text)
    THEN (CHOOSE i \in 1..(Len(text) - Len(pattern) + 1) :
              /\ SubSeq(text, i, i + Len(pattern) - 1) = pattern
              /\ \A j \in 1..(i - 1) : SubSeq(text, j, j + Len(pattern) - 1) # pattern) - 1
    ELSE -1

(* str.endswith() *)
endswith(s, suffix) ==
    /\ Len(s) >= Len(suffix)
    /\ SubSeq(s, Len(s) - Len(suffix) + 1, Len(s)) = suffix

(* str.strip() *)
RECURSIVE lstrip(_)
lstrip(s) == IF s # "" /\ Char(s, 1) \in Whitespace THEN lstrip(SubSeq(s, 2, Len(s))) ELSE s
RECURSIVE rstrip(_)
rstrip(s) == IF s # "" /\ Char(s, Len(s)) \in Whitespace THEN rstrip(SubSeq(s, 1, Len(s) - 1)) ELSE s
strip(s) == rstrip(lstrip(s))

(* str.rfind() of one character: 0-based index of the last occurrence, or -1 *)
rfind(s, c) ==
    IF \E i \in 1..Len(s) : Char(s, i) = c
    THEN (CHOOSE i \in 1..Len(s) :
              Char(s, i) = c /\ \A j \in (i + 1)..Len(s) : Char(s, j) # c) - 1
    ELSE -1

Max(a, b) == IF a >= b THEN a ELSE b
Min(a, b) == IF a <= b THEN a ELSE b

(***************************************************************************)
(* The pattern extraction functions.                                       *)
(***************************************************************************)
payer_keywords ==
    << "united healthcare", "unitedhealthcare", "uhc",
       "anthem", "elevance",
       "aetna", "cvs health",
       "kaiser permanente",
       "cigna", "humana",
       "blue cross blue shield", "bcbs",
       "centene", "molina healthcare" >>

RECURSIVE PayerLoop(_, _)
PayerLoop(text_lower, k) ==
    IF k > Len(payer_keywords) THEN None
    ELSE IF Contains(payer_keywords[k], text_lower) THEN title(payer_keywords[k])
    ELSE PayerLoop(text_lower, k + 1)

(* a plausible slip: the loop keeps the last matching variant *)
RECURSIVE PayerLoopLast(_, _)
PayerLoopLast(text_lower, k) ==
    IF k < 1 THEN None
    ELSE IF Contains(payer_keywords[k], text_lower) THEN title(payer_keywords[k])
    ELSE PayerLoopLast(text_lower, k - 1)
extract_payer_name_last(text) == PayerLoopLast(lower(text), Len(payer_keywords))

_extract_payer_name(text) == PayerLoop(lower(text), 1)

(* a plausible slip: the appeal test placed after the fee-schedule test *)
classify_document_type_reordered(text) ==
    LET text_lower == lower(text) IN
    IF Contains("prior authorization", text_lower) \/ Contains("pre-authorization", text_lower)
        THEN "Prior Authorization Guidelines"
    ELSE IF Contains("claim", text_lower) /\ Contains("timely filing", text_lower)
        THEN "Claims & Timely Filing"
    ELSE IF Contains("provider manual", text_lower)
        THEN "Provider Manual"
    ELSE IF Contains("fee schedule", text_lower) \/ Contains("reimbursement", text_lower)
        THEN "Fee Schedule"
    ELSE IF Contains("appeal", text_lower)
        THEN "Appeals Process"
    ELSE IF Contains("credentialing", text_lower)
        THEN "Credentialing Requirements"
    ELSE "General Policy Document"

_classify_document_type(text) ==
    LET text_lower == lower(text) IN
    IF Contains("prior authorization", text_lower) \/ Contains("pre-authorization", text_lower)
        THEN "Prior Authorization Guidelines"
    ELSE IF Contains("claim", text_lower) /\ Contains("timely filing", text_lower)
        THEN "Claims & Timely Filing"
    ELSE IF Contains("appeal", text_lower)
        THEN "Appeals Process"
    ELSE IF Contains("provider manual", text_lower)
        THEN "Provider Manual"
    ELSE IF Contains("fee schedule", text_lower) \/ Contains("reimbursement", text_lower)
        THEN "Fee Schedule"
    ELSE IF Contains("credentialing", text_lower)
        THEN "Credentialing Requirements"
    ELSE "General Policy Document"

context_chars == 200

_extract_surrounding_text(text, pattern) ==
    LET pattern_lower == lower(pattern)
        text_lower == lower(text)
        idx == find(text_lower, pattern_lower)
    IN  IF idx = -1 THEN ""
        ELSE LET start == Max(0, idx - context_chars)
                 end == Min(Len(text), idx + Len(pattern) + context_chars)
             IN  strip(SubSeq(text, start + 1, end))

rule_patterns ==
    << [type |-> "prior_authorization",
        patterns |-> <<"prior authorization required", "pre-auth required", "pa required">>],
       [type |-> "timely_filing",
        patterns |-> <<"timely filing", "filing deadline", "claim submission deadline">>],
       [type |-> "appeal_deadline",
        patterns |-> <<"appeal within", "appeal deadline", "days to appeal">>],
       [type |-> "documentation",
        patterns |-> <<"documentation required", "medical records required">>],
       [type |-> "notification",
        patterns |-> <<"notification required", "must notify", "advance notice">>] >>

(* The two nested loops of _extract_healthcare_rules: c walks the          *)
(* categories, p the patterns of category c, rules is the list so far.     *)
RECURSIVE RulesLoop(_, _, _, _, _)
RulesLoop(text, text_lower, c, p, rules) ==
    IF c > Len(rule_patterns) THEN rules
    ELSE IF p > Len(rule_patterns[c].patterns)
        THEN RulesLoop(text, text_lower, c + 1, 1, rules)
    ELSE LET pattern == rule_patterns[c].patterns[p]
         IN  IF Contains(pattern, text_lower)
             THEN RulesLoop(text, text_lower, c, p + 1,
                      Append(rules, [type |-> rule_patterns[c].type,
                                     pattern_matched |-> pattern,
                                     rule_text |-> _extract_surrounding_text(text, pattern)]))
             ELSE RulesLoop(text, text_lower, c, p + 1, rules)

(* a plausible slip: a break after the first matching pattern of a category *)
RECURSIVE RulesLoopBreak(_, _, _, _, _)
RulesLoopBreak(text, text_lower, c, p, rules) ==
    IF c > Len(rule_patterns) THEN rules
    ELSE IF p > Len(rule_patterns[c].patterns)
        THEN RulesLoopBreak(text, text_lower, c + 1, 1, rules)
    ELSE LET pattern == rule_patterns[c].patterns[p]
         IN  IF Contains(pattern, text_lower)
             THEN RulesLoopBreak(text, text_lower, c + 1, 1,
                      Append(rules, [type |-> rule_patterns[c].type,
                                     pattern_matched |-> pattern,
                                     rule_text |-> _extract_surrounding_text(text, pattern)]))
             ELSE RulesLoopBreak(text, text_lower, c, p + 1, rules)
extract_healthcare_rules_break(text) == RulesLoopBreak(text, lower(text), 1, 1, <<>>)

_extract_healthcare_rules(text) == RulesLoop(text, lower(text), 1, 1, <<>>)

(***************************************************************************)
(* Inputs of the pattern extraction functions: every concatenation of at   *)
(* most MaxFrags fragments, and the sample texts.                          *)
(***************************************************************************)
Frags ==
    { "UHC ", "Aetna ", "Timely Filing ", "filing deadline ", "deadline ",
      "claim ", "Appeal ", "fee schedule ", "Prior Authorization Required ",
      "must notify ", "credentialing ", "Provider Manual " }

SampleTexts ==
    { "Member is covered under UHC and also Aetna network",
      "Timely filing applies. The timely filing limit is 90 days." }

RECURSIVE Join(_)
Join(fs) == IF fs = <<>> THEN "" ELSE Head(fs) \o Join(Tail(fs))

TextInputs ==
    { Join(fs) : fs \in UNION { [1..n -> Frags] : n \in 0..MaxFrags } } \cup SampleTexts

(***************************************************************************)
(* Path(blob_name).stem on a POSIX path: the final component, cut at its   *)
(* last dot unless that dot is its first or its last character.            *)
(***************************************************************************)
path_name(p) == SubSeq(p, rfind(p, "/") + 2, Len(p))

stem(p) ==
    LET name == path_name(p)
        i == rfind(name, ".")
    IN  IF 0 < i /\ i < Len(name) - 1 THEN SubSeq(name, 1, i) ELSE name

json_blob_name(blob_name) == stem(blob_name) \o "_ocr.json"

(* datetime.utcnow().strftime("%Y%m%d_%H%M%S") at the time of the summary *)
utcnow_stamp == "20260101_120000"
summary_blob_name == "_batch_summary_" \o utcnow_stamp \o ".json"

(***************************************************************************)
(* The document assembler.                                                 *)
(***************************************************************************)
page_count(result) ==
    IF result.pages # NoList /\ result.pages[1] # <<>> THEN Len(result.pages[1]) ELSE 0

(* the texts the OCR service answers with *)
OcrContents == { "Coverage overview.", "Timely filing deadline for each claim." }

(***************************************************************************)
(* An attribute of a provider object: not there at all (hasattr is False), *)
(* there with the value None, or there with a value.  Scalar values        *)
(* (confidence, polygon, role, kind, spans) are written as their JSON      *)
(* text, so that a value and None can stand in the same field.             *)
(***************************************************************************)
Missing == [attr |-> "missing"]
NoneAttr == [attr |-> "None"]
Val(v) == [attr |-> "value", value |-> v]

hasattr(a) == a.attr # "missing"
attr_value(a) == IF a.attr = "None" THEN None ELSE a.value

(* getattr(obj, name, default) *)
getattr(a, default) == IF hasattr(a) THEN attr_value(a) ELSE default

(* "if x:" on an optional list *)
truthy_list(l) == l # NoList /\ l[1] # <<>>

(* lines 285-289 *)
line_data(line) ==
    [ text |-> line.content,
      confidence |-> getattr(line.confidence, None),
      bounding_box |-> IF hasattr(line.polygon) THEN attr_value(line.polygon) ELSE None ]

(* lines 273-291 *)
page_data(page) ==
    [ page_number |-> page.page_number,
      dimensions |-> [width |-> page.width, height |-> page.height, unit |-> page.unit],
      lines |-> IF truthy_list(page.lines)
                THEN [k \in 1..Len(page.lines[1]) |-> line_data(page.lines[1][k])]
                ELSE <<>> ]

(* lines 296-302: page_number is set only when bounding_regions is there   *)
(* and not empty                                                           *)
para_data(para) ==
    LET base == [content |-> para.content, role |-> getattr(para.role, None)] IN
    IF hasattr(para.bounding_regions)
          /\ para.bounding_regions.attr = "value"
          /\ para.bounding_regions.value # <<>>
    THEN [ content |-> base.content,
           role |-> base.role,
           page_number |-> para.bounding_regions.value[1].page_number ]
    ELSE base

(* lines 317-324 *)
cell_data(cell) ==
    [ row |-> cell.row_index,
      column |-> cell.column_index,
      content |-> cell.content,
      kind |-> getattr(cell.kind, None),
      row_span |-> getattr(cell.row_span, "1"),
      column_span |-> getattr(cell.column_span, "1") ]

(* lines 309-314 and 316-324 *)
table_data(table_idx, table) ==
    [ table_id |-> table_idx + 1,
      row_count |-> table.row_count,
      column_count |-> table.column_count,
      cells |-> [k \in 1..Len(table.cells) |-> cell_data(table.cells[k])] ]

(* lines 271-291 *)
extract_pages(json_output, result) ==
    IF truthy_list(result.pages)
    THEN [json_output EXCEPT
             !.pages = [k \in 1..Len(result.pages[1]) |-> page_data(result.pages[1][k])]]
    ELSE json_output

(* lines 294-304 *)
extract_paragraphs(json_output, result) ==
    IF truthy_list(result.paragraphs)
    THEN [json_output EXCEPT
             !.paragraphs = [k \in 1..Len(result.paragraphs[1]) |->
                                para_data(result.paragraphs[1][k])]]
    ELSE json_output

(* lines 307-326: enumerate() counts from 0 *)
extract_tables(json_output, result) ==
    IF truthy_list(result.tables)
    THEN [json_output EXCEPT
             !.tables = [k \in 1..Len(result.tables[1]) |->
                            table_data(k - 1, result.tables[1][k])]]
    ELSE json_output

initial_json_output(result, blob_name) ==
    [ source_blob |-> blob_name,
      page_count |-> page_count(result),
      full_text |-> result.content,
      pages |-> <<>>,
      paragraphs |-> <<>>,
      tables |-> <<>>,
      healthcare_metadata |->
          [ payer_name |-> _extract_payer_name(result.content),
            document_type |-> _classify_document_type(result.content),
            detected_rules |-> _extract_healthcare_rules(result.content) ],
      healthcare_rules_count |-> 0 ]

(* a plausible slip: the count is left at its initial value *)
rules_count_not_updated(json_output) == json_output

update_rules_count(json_output) ==
    [json_output EXCEPT
        !.healthcare_rules_count = Len(json_output.healthcare_metadata.detected_rules)]

_convert_to_healthcare_json(result, blob_name) ==
    update_rules_count(
        extract_tables(
            extract_paragraphs(
                extract_pages(initial_json_output(result, blob_name), result),
                result),
            result))

(***************************************************************************)
(* The per-document results and the batch summary.                         *)
(***************************************************************************)
success_result(blob_name, json_result) ==
    [ blob_name |-> blob_name,
      status |-> "success",
      pages |-> json_result.page_count,
      rules_extracted |-> json_result.healthcare_rules_count,
      json_blob |-> json_blob_name(blob_name) ]

(* a plausible slip: the description of the exception is not kept *)
failed_result_unknown_error(blob_name, e) ==
    [ blob_name |-> blob_name, status |-> "failed", error |-> "Unknown error" ]

failed_result(blob_name, e) ==
    [ blob_name |-> blob_name, status |-> "failed", error |-> e ]

RECURSIVE CountStatus(_, _)
CountStatus(rs, st) ==
    IF rs = <<>> THEN 0
    ELSE (IF Head(rs).status = st THEN 1 ELSE 0) + CountStatus(Tail(rs), st)

RECURSIVE SumPages(_)
SumPages(rs) ==
    IF rs = <<>> THEN 0
    ELSE (IF Head(rs).status = "success" THEN Head(rs).pages ELSE 0) + SumPages(Tail(rs))

RECURSIVE SumRules(_)
SumRules(rs) ==
    IF rs = <<>> THEN 0
    ELSE (IF Head(rs).status = "success" THEN Head(rs).rules_extracted ELSE 0)
             + SumRules(Tail(rs))

(* a plausible slip: total_rules summed from the pages field *)
batch_summary_rules_from_pages(rs) ==
    [ total_files |-> Len(rs),
      successful |-> CountStatus(rs, "success"),
      failed |-> CountStatus(rs, "failed"),
      total_pages |-> SumPages(rs),
      total_rules |-> SumPages(rs),
      results |-> rs ]

batch_summary(rs) ==
    [ total_files |-> Len(rs),
      successful |-> CountStatus(rs, "success"),
      failed |-> CountStatus(rs, "failed"),
      total_pages |-> SumPages(rs),
      total_rules |-> SumRules(rs),
      results |-> rs ]

(***************************************************************************)
(* Control flow of process_all_pdfs_from_blob.                             *)
(***************************************************************************)
is_pdf(name) == endswith(lower(name), ".pdf")

(* a plausible slip: the summary is written for an empty listing as well *)
after_listing_always_summary(blobs) == IF blobs = <<>> THEN "summary" ELSE "sas"

(* "if not pdf_blobs: return []" *)
after_listing(blobs) == IF blobs = <<>> THEN "done" ELSE "sas"

(* a plausible slip: the delay is taken after the last document too *)
after_document_always_sleep(idx, n) == IF idx <= n THEN "sleep" ELSE "summary"

(* "if i < len(pdf_blobs): time.sleep(3)" *)
after_document(idx, n) == IF idx < n THEN "sleep" ELSE "summary"

(* a plausible slip: the handler of _upload_batch_summary re-raises *)
after_summary_upload_reraise(ok) == IF ok THEN "return" ELSE "raised"

(* "except Exception as e: print(...)" in _upload_batch_summary *)
after_summary_upload(ok) == "return"

(***************************************************************************)
(* The blobs of the PDF container and the answers of the OCR service.      *)
(***************************************************************************)
BlobNames == { "a.pdf", "a.PDF", "d/b.pdf", "notes.txt" }

Listings ==
    { l \in UNION { [1..n -> BlobNames] : n \in 0..MaxBlobs } :
          \A x, y \in DOMAIN l : x # y => l[x] # l[y] }

(* a page of the provider's answer *)
Page(k, lines) ==
    [ page_number |-> k, width |-> "8.5", height |-> "11.0", unit |-> "inch", lines |-> lines ]

OcrPages == { NoList } \cup { Some([k \in 1..n |-> Page(k, NoList)]) : n \in 0..MaxPages }

(* an answer without content, and the answers with content *)
OcrResults ==
    { [content |-> None, pages |-> NoList, paragraphs |-> NoList, tables |-> NoList] }
        \cup [ content : OcrContents, pages : OcrPages,
               paragraphs : {NoList}, tables : {NoList} ]

SasError == "generate_blob_sas failed"
OcrError == "analyze request failed"
UploadError == "upload_blob failed"
NoneLowerError == "'NoneType' object has no attribute 'lower'"

VARIABLES text, payer_name, document_type, detected_rules,
          pdf_container, pc, pdf_blobs, i, result, json_result, exc,
          results, json_store, summary, returned, log

textVars == <<text, payer_name, document_type, detected_rules>>
batchVars == <<pdf_container, pc, pdf_blobs, i, result, json_result, exc,
               results, json_store, summary, returned, log>>
vars == <<text, payer_name, document_type, detected_rules,
          pdf_container, pc, pdf_blobs, i, result, json_result, exc,
          results, json_store, summary, returned, log>>

TextIdle ==
    /\ text = ""
    /\ payer_name = Unset
    /\ document_type = Unset
    /\ detected_rules = Unset

BatchStart ==
    /\ pc = "list"
    /\ pdf_blobs = <<>>
    /\ i = 0
    /\ result = NoRecord
    /\ json_result = NoRecord
    /\ exc = Unset
    /\ results = <<>>
    /\ json_store = <<>>
    /\ summary = NoRecord
    /\ returned = Unset
    /\ log = <<>>

(***************************************************************************)
(* The specification of the pattern extraction functions.                  *)
(***************************************************************************)
TextInit ==
    /\ text \in TextInputs
    /\ payer_name = Unset
    /\ document_type = Unset
    /\ detected_rules = Unset
    /\ pdf_container = <<>>
    /\ BatchStart

ExtractPayerName ==
    /\ payer_name = Unset
    /\ payer_name' = _extract_payer_name(text)
    /\ UNCHANGED <<text, document_type, detected_rules>>
    /\ UNCHANGED batchVars

ClassifyDocumentType ==
    /\ document_type = Unset
    /\ document_type' = _classify_document_type(text)
    /\ UNCHANGED <<text, payer_name, detected_rules>>
    /\ UNCHANGED batchVars

ExtractHealthcareRules ==
    /\ detected_rules = Unset
    /\ detected_rules' = _extract_healthcare_rules(text)
    /\ UNCHANGED <<text, payer_name, document_type>>
    /\ UNCHANGED batchVars

TextNext == ExtractPayerName \/ ClassifyDocumentType \/ ExtractHealthcareRules

SpecText == TextInit /\ [][TextNext]_vars

(***************************************************************************)
(* The specification of the batch run.  log is the history of the run.     *)
(***************************************************************************)
Init ==
    /\ pdf_container \in Listings
    /\ BatchStart
    /\ TextIdle

Event(ev, doc, info) == [ev |-> ev, doc |-> doc, info |-> info]

(* lines 137-152: list the container, keep the PDF blobs *)
ListBlobs ==
    /\ pc = "list"
    /\ \E ok \in BOOLEAN :
         IF ok
         THEN LET blobs == SelectSeq(pdf_container, is_pdf) IN
              /\ pdf_blobs' = blobs
              /\ pc' = after_listing(blobs)
              /\ i' = IF blobs = <<>> THEN 0 ELSE 1
              /\ returned' = IF after_listing(blobs) = "done" THEN <<>> ELSE returned
              /\ log' = Append(log, Event("list", 0, "ok"))
         ELSE /\ pc' = "done"
              /\ returned' = <<>>
              /\ log' = Append(log, Event("list", 0, "failed"))
              /\ UNCHANGED <<pdf_blobs, i>>
    /\ UNCHANGED <<pdf_container, result, json_result, exc, results, json_store, summary>>
    /\ UNCHANGED textVars

(* line 96: generate_blob_sas_url *)
GenerateSasUrl ==
    /\ pc = "sas"
    /\ \E ok \in BOOLEAN :
         IF ok
         THEN /\ pc' = "ocr"
              /\ exc' = exc
              /\ log' = Append(log, Event("start", i, pdf_blobs[i]))
         ELSE /\ pc' = "except"
              /\ exc' = SasError
              /\ log' = Append(Append(log, Event("start", i, pdf_blobs[i])),
                               Event("raise", i, SasError))
    /\ UNCHANGED <<pdf_container, pdf_blobs, i, result, json_result,
                   results, json_store, summary, returned>>
    /\ UNCHANGED textVars

(* lines 100-106: begin_analyze_document_from_url and poller.result() *)
AnalyzeDocument ==
    /\ pc = "ocr"
    /\ \/ \E r \in OcrResults :
            /\ result' = r
            /\ pc' = "convert"
            /\ exc' = exc
            /\ log' = Append(log, Event("ocr", i, "ok"))
       \/ /\ pc' = "except"
          /\ exc' = OcrError
          /\ result' = result
          /\ log' = Append(Append(log, Event("ocr", i, "failed")),
                           Event("raise", i, OcrError))
    /\ UNCHANGED <<pdf_container, pdf_blobs, i, json_result,
                   results, json_store, summary, returned>>
    /\ UNCHANGED textVars

(* line 110: _convert_to_healthcare_json; None.lower() raises *)
ConvertToHealthcareJson ==
    /\ pc = "convert"
    /\ IF result.content = None
       THEN /\ pc' = "except"
            /\ exc' = NoneLowerError
            /\ json_result' = json_result
            /\ log' = Append(log, Event("raise", i, NoneLowerError))
       ELSE /\ json_result' = _convert_to_healthcare_json(result, pdf_blobs[i])
            /\ pc' = "upload"
            /\ exc' = exc
            /\ log' = log
    /\ UNCHANGED <<pdf_container, pdf_blobs, i, result,
                   results, json_store, summary, returned>>
    /\ UNCHANGED textVars

(* lines 113-114 and 205-224: _upload_json_to_blob with overwrite=True *)
UploadJsonToBlob ==
    /\ pc = "upload"
    /\ LET name == json_blob_name(pdf_blobs[i]) IN
       \E ok \in BOOLEAN :
         IF ok
         THEN /\ json_store' = (name :> json_result) @@ json_store
              /\ pc' = "success"
              /\ exc' = exc
              /\ log' = Append(log, Event("upload", i, name))
         ELSE /\ json_store' = json_store
              /\ pc' = "except"
              /\ exc' = UploadError
              /\ log' = Append(log, Event("raise", i, UploadError))
    /\ UNCHANGED <<pdf_container, pdf_blobs, i, result, json_result,
                   results, summary, returned>>
    /\ UNCHANGED textVars

(* lines 175-183 and 194: the success result, then the pacing test *)
RecordSuccess ==
    /\ pc = "success"
    /\ results' = Append(results, success_result(pdf_blobs[i], json_result))
    /\ pc' = after_document(i, Len(pdf_blobs))
    /\ log' = Append(log, Event("record", i, "success"))
    /\ UNCHANGED <<pdf_container, pdf_blobs, i, result, json_result, exc,
                   json_store, summary, returned>>
    /\ UNCHANGED textVars

(* lines 184-191 and 194: the failure result, then the pacing test *)
RecordFailure ==
    /\ pc = "except"
    /\ results' = Append(results, failed_result(pdf_blobs[i], exc))
    /\ pc' = after_document(i, Len(pdf_blobs))
    /\ exc' = Unset
    /\ log' = Append(log, Event("record", i, "failed"))
    /\ UNCHANGED <<pdf_container, pdf_blobs, i, result, json_result,
                   json_store, summary, returned>>
    /\ UNCHANGED textVars

(* line 195: time.sleep(3), then the next iteration of the loop *)
Sleep ==
    /\ pc = "sleep"
    /\ log' = Append(log, Event("sleep", i, "3s"))
    /\ IF i < Len(pdf_blobs)
       THEN i' = i + 1 /\ pc' = "sas"
       ELSE i' = i /\ pc' = "summary"
    /\ UNCHANGED <<pdf_container, pdf_blobs, result, json_result, exc,
                   results, json_store, summary, returned>>
    /\ UNCHANGED textVars

(* lines 198 and 226-245: _upload_batch_summary *)
UploadBatchSummary ==
    /\ pc = "summary"
    /\ summary' = batch_summary(results)
    /\ \E ok \in BOOLEAN :
         /\ json_store' = IF ok THEN (summary_blob_name :> batch_summary(results)) @@ json_store
                                ELSE json_store
         /\ pc' = after_summary_upload(ok)
         /\ log' = Append(log, Event("summary", Len(results), IF ok THEN "ok" ELSE "failed"))
    /\ UNCHANGED <<pdf_container, pdf_blobs, i, result, json_result, exc,
                   results, returned>>
    /\ UNCHANGED textVars

(* line 203: return results *)
ReturnResults ==
    /\ pc = "return"
    /\ returned' = results
    /\ pc' = "done"
    /\ UNCHANGED <<pdf_container, pdf_blobs, i, result, json_result, exc,
                   results, json_store, summary, log>>
    /\ UNCHANGED textVars

Next ==
    \/ ListBlobs
    \/ GenerateSasUrl
    \/ AnalyzeDocument
    \/ ConvertToHealthcareJson
    \/ UploadJsonToBlob
    \/ RecordSuccess
    \/ RecordFailure
    \/ Sleep
    \/ UploadBatchSummary
    \/ ReturnResults

Spec == Init /\ [][Next]_vars

(***************************************************************************)
(* The specification of _convert_to_healthcare_json alone: the run stands  *)
(* at line 110 with one answer of the OCR service, in which every optional *)
(* part may be absent in every way.                                        *)
(***************************************************************************)
ScalarAttrs(v) == { Missing, NoneAttr, Val(v) }

RawLines ==
    [ content : {"Policy"},
      confidence : ScalarAttrs("0.98"),
      polygon : ScalarAttrs("[0,0,1,0,1,1,0,1]") ]

RawLineLists == { NoList, Some(<<>>) } \cup { Some(<<l>>) : l \in RawLines }

RawPageLists ==
    { NoList } \cup
    UNION { { Some([k \in 1..n |-> Page(k, ls)]) : ls \in RawLineLists } : n \in 0..MaxPages }

RawParagraphs ==
    [ content : {"Appeals"},
      role : ScalarAttrs("title"),
      bounding_regions : { Missing, NoneAttr, Val(<<>>), Val(<<[page_number |-> 1]>>) } ]

RawParagraphLists == { NoList, Some(<<>>) } \cup { Some(<<p>>) : p \in RawParagraphs }

RawCells ==
    [ row_index : {0}, column_index : {0}, content : {"CPT"},
      kind : ScalarAttrs("columnHeader"),
      row_span : ScalarAttrs("2"),
      column_span : ScalarAttrs("2") ]

RawTableLists ==
    { NoList, Some(<<>>) } \cup
    { Some(<<[row_count |-> 1, column_count |-> 1, cells |-> <<c>>]>>) : c \in RawCells }

RawLayoutResults ==
    [ content : { None, "Coverage overview." },
      pages : RawPageLists,
      paragraphs : RawParagraphLists,
      tables : RawTableLists ]

ConvertInit ==
    /\ pdf_container = <<"a.pdf">>
    /\ pc = "convert"
    /\ pdf_blobs = <<"a.pdf">>
    /\ i = 1
    /\ result \in RawLayoutResults
    /\ json_result = NoRecord
    /\ exc = Unset
    /\ results = <<>>
    /\ json_store = <<>>
    /\ summary = NoRecord
    /\ returned = Unset
    /\ log = <<Event("list", 0, "ok"), Event("start", 1, "a.pdf"), Event("ocr", 1, "ok")>>
    /\ TextIdle

ConvertNext == ConvertToHealthcareJson

SpecConvert == ConvertInit /\ [][ConvertNext]_vars

(***************************************************************************)
(* Properties of the batch run (under Spec).                               *)
(***************************************************************************)
EventsOf(ev) == SelectSeq(log, LAMBDA e : e.ev = ev)

StatusesOf(rs) == [k \in DOMAIN rs |-> rs[k].status]

RECURSIVE SumFn(_)
SumFn(f) ==
    IF DOMAIN f = {} THEN 0
    ELSE LET k == CHOOSE x \in DOMAIN f : TRUE
         IN  f[k] + SumFn([x \in DOMAIN f \ {k} |-> f[x]])

(* C1: the results list has one entry per listed PDF blob, in listing      *)
(* order; an entry is "failed", with the description of the exception,     *)
(* exactly when process_pdf_from_blob raised for that blob, and "success"  *)
(* otherwise; at the end every listed blob has been attempted and the      *)
(* returned list has exactly N entries.                                    *)
C1_OneResultPerBlobInOrder ==
    LET N == Len(pdf_blobs)
        Raised(k) == \E p \in DOMAIN log : log[p].ev = "raise" /\ log[p].doc = k
    IN
    /\ Len(results) <= N
    /\ \A k \in DOMAIN results :
         /\ results[k].blob_name = pdf_blobs[k]
         /\ results[k].status \in {"success", "failed"}
         /\ (results[k].status = "failed") <=> Raised(k)
         /\ results[k].status = "failed" =>
                \E p \in DOMAIN log : log[p] = Event("raise", k, results[k].error)
    /\ (pc = "done" /\ N >= 1) =>
         /\ returned = results
         /\ Len(returned) = N
         /\ \A k \in 1..N : \E p \in DOMAIN log : log[p].ev = "start" /\ log[p].doc = k

C1_Witness ==
    /\ pc = "done"
    /\ Len(pdf_blobs) = 3
    /\ Len(returned) = 3
    /\ StatusesOf(returned) = <<"failed", "failed", "success">>
    /\ returned[1].error = OcrError
    /\ returned[2].error = NoneLowerError

(* C2: the summary has total_files = len(results) = successful + failed,   *)
(* total_pages and total_rules are the sums of pages and rules_extracted   *)
(* over the successful results only; three documents with the second       *)
(* failing give total_files 3, successful 2, failed 1.                     *)
C2_SummaryTotals ==
    summary # NoRecord =>
        LET S == { k \in DOMAIN results : results[k].status = "success" }
            F == { k \in DOMAIN results : results[k].status = "failed" }
        IN
        /\ summary.results = results
        /\ summary.total_files = Len(results)
        /\ summary.total_files = summary.successful + summary.failed
        /\ summary.successful = Cardinality(S)
        /\ summary.failed = Cardinality(F)
        /\ summary.total_pages = SumFn([k \in S |-> results[k].pages])
        /\ summary.total_rules = SumFn([k \in S |-> results[k].rules_extracted])
        /\ StatusesOf(results) = <<"success", "failed", "success">> =>
               /\ summary.total_files = 3
               /\ summary.successful = 2
               /\ summary.failed = 1

C2_Witness ==
    /\ summary # NoRecord
    /\ StatusesOf(results) = <<"success", "failed", "success">>
    /\ summary.total_files = 3
    /\ summary.successful = 2
    /\ summary.failed = 1
    /\ summary.total_pages = 1
    /\ summary.total_rules = 2

(* C3: at the end of a batch every document recorded as "success" has an   *)
(* artifact in the JSON container named <stem>_ocr.json whose source_blob  *)
(* is the blob name of that document.                                      *)
C3_SuccessHasOwnArtifact ==
    pc = "done" =>
        \A k \in DOMAIN results :
            results[k].status = "success" =>
                /\ results[k].json_blob \in DOMAIN json_store
                /\ json_store[results[k].json_blob].source_blob = results[k].blob_name

(* C4: the pacing delay is taken after document k exactly when k < N,      *)
(* whether document k succeeded or failed: a delay follows the result of   *)
(* every document but the last, every document after the first starts      *)
(* right after the delay of its predecessor, and a finished batch has      *)
(* taken exactly N-1 delays.                                               *)
C4_PacingDelayBetweenDocuments ==
    LET N == Len(pdf_blobs) IN
    /\ \A p \in DOMAIN log :
         /\ log[p].ev = "sleep" =>
                /\ log[p].doc < N
                /\ p > 1
                /\ log[p - 1].ev = "record"
                /\ log[p - 1].doc = log[p].doc
         /\ (log[p].ev = "record" /\ p < Len(log)) =>
                IF log[p].doc < N
                THEN log[p + 1].ev = "sleep" /\ log[p + 1].doc = log[p].doc
                ELSE log[p + 1].ev # "sleep"
         /\ (log[p].ev = "start" /\ log[p].doc > 1) =>
                /\ log[p - 1].ev = "sleep"
                /\ log[p - 1].doc = log[p].doc - 1
    /\ (pc = "done" /\ N >= 1) => Len(EventsOf("sleep")) = N - 1

C4_Witness ==
    /\ pc = "done"
    /\ StatusesOf(returned) = <<"failed", "success", "success">>
    /\ Len(EventsOf("sleep")) = 2
    /\ log[Len(log) - 1].ev = "record"

SummaryUploadFailed ==
    \E p \in DOMAIN log : log[p].ev = "summary" /\ log[p].info = "failed"

(* C5: when the upload of the batch summary fails, _upload_batch_summary   *)
(* does not raise, the step changes no recorded result and no stored       *)
(* artifact, and process_all_pdfs_from_blob returns the full results list. *)
C5_SummaryFailureIsSwallowed ==
    /\ [](SummaryUploadFailed =>
             /\ pc \in {"return", "done"}
             /\ pc = "done" => (returned = results /\ Len(returned) = Len(pdf_blobs)))
    /\ [][(pc = "summary" /\ log'[Len(log')].info = "failed") =>
             (results' = results /\ json_store' = json_store)]_vars

C5_Witness ==
    /\ pc = "done"
    /\ SummaryUploadFailed
    /\ StatusesOf(returned) = <<"success", "failed">>
    /\ returned[1].json_blob \in DOMAIN json_store
    /\ summary_blob_name \notin DOMAIN json_store

(* C6 as stated: every batch run, also with no PDF document or a failed    *)
(* listing, attempts to write the batch summary exactly once.              *)
C6_SummaryOnceInEveryRun ==
    pc = "done" => Len(EventsOf("summary")) = 1

(* C6, amended: a run that lists N >= 1 PDF documents attempts to write    *)
(* the batch summary exactly once, after every document has been           *)
(* attempted and never between two documents; a run that finds no PDF      *)
(* document, or whose listing fails, attempts no summary.                  *)
C6_SummaryOnceAfterAllDocuments ==
    LET N == Len(pdf_blobs) IN
    /\ Len(EventsOf("summary")) <= 1
    /\ \A p \in DOMAIN log :
         log[p].ev = "summary" =>
             /\ N >= 1
             /\ log[p].doc = N
             /\ \A k \in 1..N : \E q \in 1..(p - 1) : log[q].ev = "record" /\ log[q].doc = k
             /\ \A q \in (p + 1)..Len(log) : FALSE
    /\ pc = "done" => Len(EventsOf("summary")) = (IF N >= 1 THEN 1 ELSE 0)

C6_Witness ==
    /\ pc = "done"
    /\ Len(pdf_blobs) = 2
    /\ Len(EventsOf("summary")) = 1
    /\ Len(EventsOf("record")) = 2

IsDocumentArtifact(n) == n # summary_blob_name

(* C7: every document returned by _convert_to_healthcare_json, every       *)
(* uploaded artifact and the rules_extracted of every success result has   *)
(* a rule count equal to the length of detected_rules, also when that is 0.*)
C7_RulesCountMatchesDetectedRules ==
    /\ json_result # NoRecord =>
           json_result.healthcare_rules_count
               = Len(json_result.healthcare_metadata.detected_rules)
    /\ \A n \in DOMAIN json_store :
           IsDocumentArtifact(n) =>
               json_store[n].healthcare_rules_count
                   = Len(json_store[n].healthcare_metadata.detected_rules)
    /\ (i >= 1 /\ Len(results) = i /\ results[i].status = "success") =>
           results[i].rules_extracted
               = Len(json_result.healthcare_metadata.detected_rules)

C7_Witness ==
    /\ pc = "done"
    /\ \E n \in DOMAIN json_store :
           /\ IsDocumentArtifact(n)
           /\ json_store[n].healthcare_rules_count = 2
           /\ Len(json_store[n].healthcare_metadata.detected_rules) = 2
    /\ \E n \in DOMAIN json_store :
           /\ IsDocumentArtifact(n)
           /\ json_store[n].healthcare_rules_count = 0
           /\ json_store[n].healthcare_metadata.detected_rules = <<>>

(***************************************************************************)
(* Properties of the pattern extraction functions (under SpecText).        *)
(***************************************************************************)

(* str.title() of each payer variant, written out *)
PayerTitles ==
    << "United Healthcare", "Unitedhealthcare", "Uhc",
       "Anthem", "Elevance",
       "Aetna", "Cvs Health",
       "Kaiser Permanente",
       "Cigna", "Humana",
       "Blue Cross Blue Shield", "Bcbs",
       "Centene", "Molina Healthcare" >>

MatchingPayers(t) == { k \in 1..Len(payer_keywords) : Contains(payer_keywords[k], lower(t)) }

(* C8: _extract_payer_name returns the title-cased form of the first       *)
(* variant, in the order of the fixed list, that is a substring of the     *)
(* lower-cased text, and None exactly when no variant is a substring; the  *)
(* text with both "UHC" and "Aetna" yields "Uhc".                          *)
C8_PayerFirstVariantInListOrder ==
    payer_name # Unset =>
        LET M == MatchingPayers(text) IN
        /\ (payer_name = None) <=> (M = {})
        /\ M # {} => payer_name = PayerTitles[CHOOSE k \in M : \A j \in M : k <= j]
        /\ text = "Member is covered under UHC and also Aetna network" => payer_name = "Uhc"

(* "Aetna" stands before "UHC" in the text, "uhc" before "aetna" in the list *)
C8_Witness ==
    /\ text = "Aetna UHC "
    /\ payer_name = "Uhc"

TypeCategories ==
    << "Prior Authorization Guidelines", "Claims & Timely Filing", "Appeals Process",
       "Provider Manual", "Fee Schedule", "Credentialing Requirements" >>

TypeRuleHits(t) ==
    LET tl == lower(t) IN
    << Contains("prior authorization", tl) \/ Contains("pre-authorization", tl),
       Contains("claim", tl) /\ Contains("timely filing", tl),
       Contains("appeal", tl),
       Contains("provider manual", tl),
       Contains("fee schedule", tl) \/ Contains("reimbursement", tl),
       Contains("credentialing", tl) >>

(* C9: _classify_document_type returns the category of the first keyword   *)
(* rule that matches, in the fixed priority order, and "General Policy     *)
(* Document" exactly when no rule matches; a text with "appeal" and "fee   *)
(* schedule" is classified "Appeals Process".                              *)
C9_ClassifyFirstMatchingRule ==
    document_type # Unset =>
        LET hits == TypeRuleHits(text)
            H == { k \in 1..Len(TypeCategories) : hits[k] }
        IN
        /\ (document_type = "General Policy Document") <=> (H = {})
        /\ H # {} => document_type = TypeCategories[CHOOSE k \in H : \A j \in H : k <= j]
        /\ text \in {"Appeal fee schedule ", "fee schedule Appeal "}
               => document_type = "Appeals Process"

C9_Witness ==
    /\ text = "fee schedule Appeal "
    /\ document_type = "Appeals Process"

(* the trigger phrases with their categories, in table order *)
TriggerTable ==
    << <<"prior_authorization", "prior authorization required">>,
       <<"prior_authorization", "pre-auth required">>,
       <<"prior_authorization", "pa required">>,
       <<"timely_filing", "timely filing">>,
       <<"timely_filing", "filing deadline">>,
       <<"timely_filing", "claim submission deadline">>,
       <<"appeal_deadline", "appeal within">>,
       <<"appeal_deadline", "appeal deadline">>,
       <<"appeal_deadline", "days to appeal">>,
       <<"documentation", "documentation required">>,
       <<"documentation", "medical records required">>,
       <<"notification", "notification required">>,
       <<"notification", "must notify">>,
       <<"notification", "advance notice">> >>

OccurringTriggers(t) ==
    LET tl == lower(t) IN SelectSeq(TriggerTable, LAMBDA e : Contains(e[2], tl))

(* C10: _extract_healthcare_rules returns exactly one DetectedRule for     *)
(* each trigger phrase of the table that occurs in the lower-cased text,   *)
(* however often it occurs, tagged with the phrase's category and in table *)
(* order; two matching phrases of one category give two entries of the     *)
(* same type.                                                              *)
C10_OneRulePerOccurringPhrase ==
    detected_rules # Unset =>
        LET expected == OccurringTriggers(text) IN
        /\ Len(detected_rules) = Len(expected)
        /\ \A x \in 1..Len(expected) :
               /\ detected_rules[x].type = expected[x][1]
               /\ detected_rules[x].pattern_matched = expected[x][2]
        /\ text = "Timely Filing filing deadline "
               => /\ Len(detected_rules) = 2
                  /\ detected_rules[1].type = "timely_filing"
                  /\ detected_rules[2].type = "timely_filing"
        /\ text = "Timely filing applies. The timely filing limit is 90 days."
               => Len(detected_rules) = 1

C10_Witness ==
    /\ text = "Timely Filing filing deadline "
    /\ detected_rules # Unset
    /\ Len(detected_rules) = 2
    /\ detected_rules[1].pattern_matched = "timely filing"
    /\ detected_rules[2].pattern_matched = "filing deadline"

(***************************************************************************)
(* Properties of _convert_to_healthcare_json (under SpecConvert).          *)
(***************************************************************************)
ListOf(l) == IF l = NoList THEN <<>> ELSE l[1]

Absent(a) == a.attr \in {"missing", "None"}

NoPageReference(para) ==
    Absent(para.bounding_regions) \/ para.bounding_regions.value = <<>>

Converted == pc = "upload"

(* the conversion does not raise *)
C11_NoRaise == pc # "except"

(* an absent confidence or polygon of a line gives None *)
C11_LineMarkers ==
    Converted =>
        LET ps == ListOf(result.pages) IN
        /\ Len(json_result.pages) = Len(ps)
        /\ \A k \in DOMAIN ps :
             LET ls == ListOf(ps[k].lines) IN
             /\ Len(json_result.pages[k].lines) = Len(ls)
             /\ \A m \in DOMAIN ls :
                  /\ Absent(ls[m].confidence) =>
                         json_result.pages[k].lines[m].confidence = None
                  /\ Absent(ls[m].polygon) =>
                         json_result.pages[k].lines[m].bounding_box = None

(* an absent role of a paragraph gives None *)
C11_RoleMarker ==
    Converted =>
        LET qs == ListOf(result.paragraphs) IN
        /\ Len(json_result.paragraphs) = Len(qs)
        /\ \A k \in DOMAIN qs :
             Absent(qs[k].role) => json_result.paragraphs[k].role = None

(* an absent page reference of a paragraph gives page_number None *)
C11_PageReferenceMarker ==
    Converted =>
        LET qs == ListOf(result.paragraphs) IN
        \A k \in DOMAIN qs :
            NoPageReference(qs[k]) =>
                /\ "page_number" \in DOMAIN json_result.paragraphs[k]
                /\ json_result.paragraphs[k].page_number = None

(* an absent kind of a cell gives None *)
C11_KindMarker ==
    Converted =>
        LET ts == ListOf(result.tables) IN
        /\ Len(json_result.tables) = Len(ts)
        /\ \A k \in DOMAIN ts :
             \A m \in DOMAIN ts[k].cells :
                 Absent(ts[k].cells[m].kind) => json_result.tables[k].cells[m].kind = None

(* an absent row or column span of a cell gives 1 *)
C11_SpanDefault ==
    Converted =>
        LET ts == ListOf(result.tables) IN
        \A k \in DOMAIN ts :
            \A m \in DOMAIN ts[k].cells :
                /\ Absent(ts[k].cells[m].row_span) =>
                       json_result.tables[k].cells[m].row_span = "1"
                /\ Absent(ts[k].cells[m].column_span) =>
                       json_result.tables[k].cells[m].column_span = "1"

(* C11: for every raw layout result in which any combination of optional  *)
(* parts is absent (pages, lines, paragraphs, tables, full text content,   *)
(* confidence or polygon of a line, role or page reference of a paragraph, *)
(* kind or spans of a cell), _convert_to_healthcare_json does not raise,   *)
(* and its output carries None for each absent confidence, bounding box,   *)
(* role, page reference and cell kind, and 1 for each absent span.         *)
C11_AbsentPartsGiveMarkers ==
    /\ C11_NoRaise
    /\ C11_LineMarkers
    /\ C11_RoleMarker
    /\ C11_PageReferenceMarker
    /\ C11_KindMarker
    /\ C11_SpanDefault
====
